---- MODULE Spec2Model ----
(***************************************************************************)
(* Verification model of girder's user REST resource                       *)
(* (girder/api/v1/user.py) and of the documentation builder                *)
(* (girder/api/describe.py).                                               *)
(*                                                                         *)
(* Each HTTP client owns one request slot.  A request is handled in        *)
(* steps, one per call into the document store, so that requests of        *)
(* different clients interleave exactly where the handler code gives up    *)
(* atomicity.  Text is a sequence of one-character strings, so that        *)
(* lower(), strip(), split(':', 1) and the '@' test are computed.          *)
(***************************************************************************)
EXTENDS Integers, Sequences, FiniteSets, TLC

(* ------------------------------ bounds --------------------------------- *)
\* highest identity id the store hands out (seeds use 1 and 2)
MaxId == 3
\* highest token id the store hands out
MaxTokens == 1
\* how many times the clock advances
MaxTicks == 1

\* clients of the sequential and of the concurrent specification
Clients == {"c1"}
ConcClients == {"c1", "c2"}

(* ----------------------------- text ------------------------------------ *)
Lower(ch) == IF ch = "A" THEN "a" ELSE IF ch = "B" THEN "b" ELSE ch

RECURSIVE LStrip(_)
LStrip(s) == IF s # <<>> /\ Head(s) = " " THEN LStrip(Tail(s)) ELSE s

RECURSIVE RStrip(_)
RStrip(s) ==
    IF s # <<>> /\ s[Len(s)] = " " THEN RStrip(SubSeq(s, 1, Len(s) - 1)) ELSE s

\* login.lower().strip()
Normalize(s) == RStrip(LStrip([i \in 1..Len(s) |-> Lower(s[i])]))

Contains(s, ch) == \E i \in 1..Len(s) : s[i] = ch

\* index of the first occurrence of ch in s, 0 when there is none
FirstIndex(s, ch) ==
    IF Contains(s, ch)
    THEN CHOOSE i \in 1..Len(s) : s[i] = ch /\ \A j \in 1..(i - 1) : s[j] # ch
    ELSE 0

\* credentials.split(':', 1): a list of one or two parts
Split1(s) ==
    LET i == FirstIndex(s, ":") IN
    IF i = 0 THEN <<s>>
    ELSE <<SubSeq(s, 1, i - 1), SubSeq(s, i + 1, Len(s))>>

(* --------------------------- access levels ----------------------------- *)
AccessType == [NONE |-> 0, READ |-> 1, WRITE |-> 2, ADMIN |-> 3]

None == [isNone |-> TRUE]

\* model('user').getAccessLevel(doc, user)
getAccessLevel(doc, user) ==
    IF user = None
    THEN (IF doc.public THEN AccessType.READ ELSE AccessType.NONE)
    ELSE IF user.admin \/ user._id = doc._id THEN AccessType.ADMIN
    ELSE IF doc.public THEN AccessType.READ ELSE AccessType.NONE

\* model('user').hasAccess(doc, user, level)
hasAccess(doc, user, level) == getAccessLevel(doc, user) >= level

(* ----------------------- documents and filtering ----------------------- *)
\* keys _filter always allows (user.py, 54-55)
BaseKeys == {"_id", "login", "public", "firstName", "lastName", "admin",
             "created"}

\* the stored credential let through to administrators
AdminKeys_mut == {"size", "email", "groups", "groupInvites", "salt"}
\* keys _filter adds for a requester with ADMIN access (user.py, 58)
AdminKeys == {"size", "email", "groups", "groupInvites"}

\* the password-hash primitive
Hash(password) == <<"hash", password>>

\* model('password').authenticate(user, password)
authenticate(user, password) == Hash(password) = user.salt

\* the document model('user') stores for a new identity
NewUserDoc(id, login, password, email, firstName, lastName, admin, public, t) ==
    [_id |-> id, login |-> login, email |-> email, firstName |-> firstName,
     lastName |-> lastName, admin |-> admin, public |-> public, created |-> t,
     size |-> 0, groups |-> {}, groupInvites |-> {}, salt |-> Hash(password)]

\* Resource.filterDocument(doc, allow=keys)
filterDocument(doc, allow) == [k \in (DOMAIN doc) \cap allow |-> doc[k]]

\* User._filter(user), currentUser being self.getCurrentUser()
_filter(user, currentUser) ==
    IF user = None THEN None
    ELSE LET keys == IF hasAccess(user, currentUser, AccessType.ADMIN)
                     THEN BaseKeys \cup AdminKeys
                     ELSE BaseKeys
             filtered == filterDocument(user, keys)
         IN  [k \in (DOMAIN filtered) \cup {"_accessLevel"} |->
                 IF k = "_accessLevel" THEN getAccessLevel(user, currentUser)
                 ELSE filtered[k]]

(* ------------------------- cookies and headers -------------------------- *)
\* str(objectId)
Str(id) == [str |-> id]

\* the inverse parse of Str
FromStr(s) == s.str

\* a request without authToken cookie, and cookie values
NoCookie == [kind |-> "absent", userId |-> Str(0), token |-> Str(0)]
EmptyValue == [kind |-> "empty", userId |-> Str(0), token |-> Str(0)]

\* json.dumps({'userId': ..., 'token': ...})
JsonDumps(userId, token) == [kind |-> "json", userId |-> userId, token |-> token]

\* json.loads of a cookie value: <<ok, object>>
JsonLoads(v) == IF v.kind = "json" THEN <<TRUE, v>> ELSE <<FALSE, v>>

\* the response sets no authToken cookie
NotSet == [set |-> FALSE, value |-> EmptyValue, path |-> "", expires |-> 0]

SetCookie(value, path, expires) ==
    [set |-> TRUE, value |-> value, path |-> path, expires |-> expires]

\* Authorization headers: absent, or the first six characters and the rest,
\* the rest being the base64 encoding of a text or not valid base64
NoHeader == [present |-> FALSE, scheme |-> "", valid |-> FALSE, text |-> <<>>]
B64Header(scheme, text) ==
    [present |-> TRUE, scheme |-> scheme, valid |-> TRUE, text |-> text]
BadB64Header(scheme) ==
    [present |-> TRUE, scheme |-> scheme, valid |-> FALSE, text |-> <<>>]

\* base64.b64decode(authHeader[6:]): <<ok, text>>
b64decode(h) == IF h.valid THEN <<TRUE, h.text>> ELSE <<FALSE, <<>>>>

(* ------------------------------ tokens ---------------------------------- *)
\* model('token').createToken(user, days)
createToken(id, user, days, t) ==
    [_id |-> id, userId |-> user._id, created |-> t, expires |-> t + days]

NoToken == [_id |-> -1, userId |-> 0, created |-> 0, expires |-> 0]

(* ------------------------------ state ----------------------------------- *)
VARIABLES
    users,      \* the identity collection: a set of documents
    tokens,     \* the token collection: a set of documents
    nextId,     \* next identity id the store hands out
    nextTok,    \* next token id the store hands out
    now,        \* the clock, in days
    ticks,      \* how many times the clock advanced
    lifetime,   \* User.COOKIE_LIFETIME, read from the settings at construction
    req,        \* per client: the request being handled and its response
    jar,        \* per client: the authToken cookie the client holds
    deleted,    \* history: ids of the identities removed so far
    loggedOut,  \* history: ids of the stored tokens a logout was called with
    desc,       \* one Description object, its lists, and what it exported
    docs        \* the route documentation registry and the last catalog reply

vars == <<users, tokens, nextId, nextTok, now, ticks, lifetime, req, jar,
          deleted, loggedOut, desc, docs>>

(* ----------------------------- responses -------------------------------- *)
Msg(text) == [text |-> text, arg |-> <<>>]

NoAuthToken == [token |-> 0, expires |-> 0, userId |-> 0]

Pending ==
    [status |-> "pending", kind |-> "", message |-> Msg(""), code |-> 0,
     user |-> None, list |-> {}, authToken |-> NoAuthToken]

\* a raised exception as the caller sees it
Err(kind, text, code) ==
    [Pending EXCEPT !.status = "error", !.kind = kind,
                    !.message = Msg(text), !.code = code]

Ok(text) == [Pending EXCEPT !.status = "ok", !.message = Msg(text), !.code = 200]

\* user.py, 149
UseBasicAuth == Err("RestException", "Use HTTP Basic Authentication", 401)
\* user.py, 154 (RestException's default code)
InvalidHeader == Err("RestException", "Invalid HTTP Authorization header", 400)
\* user.py, 156: unpacking a one-element list into login, password
UnpackError == Err("ValueError", "need more than 1 value to unpack", 500)
\* user.py, 163
LoginFailedNoUser == Err("RestException", "Login failed.", 403)
\* a password failure reported in words of its own
LoginFailedBadPassword_mut == Err("RestException", "Invalid password.", 403)
\* user.py, 168
LoginFailedBadPassword == Err("RestException", "Login failed.", 403)

\* errors raised outside the resource: parameter check, loader, model
MissingParameter == Err("MissingParameterError", "Parameter is required.", 400)
NotFound == Err("NotFoundError", "Invalid user id.", 400)
Forbidden == Err("ForbiddenError", "Access denied.", 403)
Conflict == Err("ConflictError", "Login or email already exists.", 400)

\* user.py, 202-204: params[...] of a parameter the request does not carry
KeyError == Err("KeyError", "", 500)

(* ----------------------------- requests --------------------------------- *)
\* a required list that forgets the email
RequiredParams_mut == {"firstName", "lastName", "login", "password"}
\* user.py, 198-199: the parameters createUser requires
RequiredParams == {"firstName", "lastName", "login", "password", "email"}

\* the fields a createUser request may carry
ParamNames == {"firstName", "lastName", "login", "password", "email"}

NoParams == [n \in {} |-> <<>>]

Idle ==
    [op |-> "idle", pc |-> "idle", cookie |-> NoCookie, auth |-> NoHeader,
     params |-> NoParams, id |-> 0, girderUser |-> None, doc |-> None,
     cur |-> None, at |-> 0, branch |-> "", newTokens |-> {},
     respCookie |-> NotSet, result |-> Pending]

IdOf(user) == IF user = None THEN 0 ELSE user._id

\* Resource.getCurrentUser(returnToken=True): <<user, token>>
getCurrentUser(r, U, T, t) ==
    IF r.girderUser # None THEN <<r.girderUser, NoToken>>
    ELSE IF r.cookie.kind = "absent" THEN <<None, NoToken>>
    ELSE LET j == JsonLoads(r.cookie) IN
         IF ~j[1] THEN <<None, NoToken>>
         ELSE LET found == {k \in T : k._id = FromStr(j[2].token)} IN
              IF found = {} THEN <<None, NoToken>>
              ELSE LET token == CHOOSE k \in found : TRUE
                       owner == {u \in U : u._id = token.userId}
                   IN  IF token.expires < t \/ owner = {}
                       THEN <<None, NoToken>>
                       ELSE <<CHOOSE u \in owner : TRUE, token>>

\* Resource.requireParams(names, params)
requireParams(names, params) == names \subseteq DOMAIN params

\* a loader that asks for no access at all
getUserLevel_mut == AccessType.NONE
\* the access level each loader asks for (user.py, 119 and 221)
getUserLevel == AccessType.READ
\* a loader that lets readers delete
deleteUserLevel_mut == AccessType.READ
deleteUserLevel == AccessType.ADMIN

\* @loadmodel(model='user', level=...): <<outcome, document>>
loadmodel(U, id, currentUser, level) ==
    LET found == {u \in U : u._id = id} IN
    IF found = {} THEN <<"notfound", None>>
    ELSE LET doc == CHOOSE u \in found : TRUE IN
         IF hasAccess(doc, currentUser, level) THEN <<"ok", doc>>
         ELSE <<"forbidden", doc>>

\* model('user').search(user=currentUser): what the requester may read
search(U, currentUser) == {u \in U : hasAccess(u, currentUser, AccessType.READ)}

\* model('user').find({loginField: login}, limit=1)
findByLogin(U, loginField, login) ==
    {u \in U : IF loginField = "email" THEN u.email = login ELSE u.login = login}

\* a store with a unique index on login only
Duplicate_mut(U, login, email) == \E u \in U : u.login = login
\* the unique indexes on login and email
Duplicate(U, login, email) == \E u \in U : u.login = login \/ u.email = email

(* --------------------------- login helpers ------------------------------ *)
\* user.py, 146-158: <<outcome, login, password>>
ParseAuth(h) ==
    IF ~h.present \/ h.scheme # "Basic " THEN <<"nobasic", <<>>, <<>>>>
    ELSE LET d == b64decode(h) IN
         IF ~d[1] THEN <<"undecodable", <<>>, <<>>>>
         ELSE LET parts == Split1(d[2]) IN
              IF Len(parts) # 2 THEN <<"nocolon", <<>>, <<>>>>
              ELSE <<"ok", Normalize(parts[1]), parts[2]>>

\* what login raises for a header that does not parse
ParseError(outcome) ==
    CASE outcome = "nobasic" -> UseBasicAuth
      [] outcome = "undecodable" -> InvalidHeader
      [] outcome = "nocolon" -> UnpackError

\* user.py, 159
LoginField(login) == IF Contains(login, "@") THEN "email" ELSE "login"

\* the two ids written to each other's place
AuthCookie_mut(user, token, days) ==
    SetCookie(JsonDumps(Str(token._id), Str(user._id)), "/", days * 3600 * 24)
\* a cookie lifetime counted in hours
AuthCookie_hours(user, token, days) ==
    SetCookie(JsonDumps(Str(user._id), Str(token._id)), "/", days * 3600)
\* user.py, 72-77: the cookie _sendAuthTokenCookie sets
AuthCookie(user, token, days) ==
    SetCookie(JsonDumps(Str(user._id), Str(token._id)), "/", days * 3600 * 24)

\* a logout that leaves the cookie alone
DeletedCookie_mut == [set |-> FALSE, value |-> EmptyValue, path |-> "/", expires |-> 0]
\* user.py, 81-86: the cookie _deleteAuthTokenCookie sets
DeletedCookie == SetCookie(EmptyValue, "/", 0)

\* user.py, 173-181
LoginBody(user, token, currentUser) ==
    [Ok("Login succeeded.") EXCEPT
        !.user = _filter(user, currentUser),
        !.authToken = [token |-> token._id, expires |-> token.expires,
                       userId |-> user._id]]

\* a request of client c as it arrives
Arrive(op, cookie) ==
    [Idle EXCEPT !.op = op, !.pc = "run", !.cookie = cookie, !.at = now]

Done(r, branch, result) ==
    [r EXCEPT !.pc = "done", !.branch = branch, !.result = result]

StoresUnchanged == UNCHANGED <<users, tokens, nextId, nextTok>>
ClockUnchanged == UNCHANGED <<now, ticks, lifetime>>
DocsUnchanged == UNCHANGED <<desc, docs>>

(* ------------------------------ find ------------------------------------ *)
\* user.py, 88-104
Find(c, cookie) ==
    /\ req[c].pc = "idle"
    /\ LET r == Arrive("find", cookie)
           currentUser == getCurrentUser(r, users, tokens, now)[1]
       IN  req' = [req EXCEPT ![c] =
                Done([r EXCEPT !.cur = currentUser], "",
                     [Ok("") EXCEPT !.list =
                         {_filter(u, currentUser) : u \in search(users, currentUser)}])]
    /\ StoresUnchanged /\ ClockUnchanged /\ DocsUnchanged
    /\ UNCHANGED <<jar, deleted, loggedOut>>

(* ----------------------------- getUser ---------------------------------- *)
\* user.py, 119-121
GetUser(c, cookie, id) ==
    /\ req[c].pc = "idle"
    /\ LET r == [Arrive("getUser", cookie) EXCEPT !.id = id]
           currentUser == getCurrentUser(r, users, tokens, now)[1]
           l == loadmodel(users, id, currentUser, getUserLevel)
           rr == [r EXCEPT !.cur = currentUser, !.doc = l[2]]
           branch == IF id \in deleted THEN "afterDelete" ELSE ""
       IN  req' = [req EXCEPT ![c] =
                CASE l[1] = "notfound" -> Done(rr, branch, NotFound)
                  [] l[1] = "forbidden" -> Done(rr, branch, Forbidden)
                  [] l[1] = "ok" ->
                       Done(rr, branch,
                            [Ok("") EXCEPT !.user = _filter(l[2], currentUser)])]
    /\ StoresUnchanged /\ ClockUnchanged /\ DocsUnchanged
    /\ UNCHANGED <<jar, deleted, loggedOut>>

(* ------------------------------ getMe ----------------------------------- *)
\* user.py, 129-130
GetMe(c, cookie) ==
    /\ req[c].pc = "idle"
    /\ LET r == Arrive("getMe", cookie)
           currentUser == getCurrentUser(r, users, tokens, now)[1]
       IN  req' = [req EXCEPT ![c] =
                Done([r EXCEPT !.cur = currentUser], "",
                     [Ok("") EXCEPT !.user = _filter(currentUser, currentUser)])]
    /\ StoresUnchanged /\ ClockUnchanged /\ DocsUnchanged
    /\ UNCHANGED <<jar, deleted, loggedOut>>

(* ------------------------------ login ----------------------------------- *)
\* a login that reads the header before it looks at the session cookie
Login_headerFirst(c, cookie, auth) ==
    /\ req[c].pc = "idle"
    /\ LET r == [Arrive("login", cookie) EXCEPT !.auth = auth]
           ct == getCurrentUser(r, users, tokens, now)
           parsed == ParseAuth(auth)
       IN  req' = [req EXCEPT ![c] =
                IF parsed[1] # "ok"
                THEN Done(r, parsed[1], ParseError(parsed[1]))
                ELSE IF ct[1] # None
                THEN Done([r EXCEPT !.cur = ct[1]], "cookie",
                          LoginBody(ct[1], ct[2], ct[1]))
                ELSE [r EXCEPT !.pc = "find"]]
    /\ StoresUnchanged /\ ClockUnchanged /\ DocsUnchanged
    /\ UNCHANGED <<jar, deleted, loggedOut>>

\* user.py, 141-158: resolve the current user, else read the header
Login(c, cookie, auth) ==
    /\ req[c].pc = "idle"
    /\ LET r == [Arrive("login", cookie) EXCEPT !.auth = auth]
           ct == getCurrentUser(r, users, tokens, now)
           parsed == ParseAuth(auth)
       IN  req' = [req EXCEPT ![c] =
                IF ct[1] # None
                THEN Done([r EXCEPT !.cur = ct[1]], "cookie",
                          LoginBody(ct[1], ct[2], ct[1]))
                ELSE IF parsed[1] # "ok"
                THEN Done(r, parsed[1], ParseError(parsed[1]))
                ELSE [r EXCEPT !.pc = "find"]]
    /\ StoresUnchanged /\ ClockUnchanged /\ DocsUnchanged
    /\ UNCHANGED <<jar, deleted, loggedOut>>

\* a login that attaches the identity before the password is verified
LoginFind_attachFirst(c) ==
    /\ req[c].op = "login" /\ req[c].pc = "find"
    /\ LET r == req[c]
           parsed == ParseAuth(r.auth)
           cursor == findByLogin(users, LoginField(parsed[2]), parsed[2])
       IN  req' = [req EXCEPT ![c] =
                IF cursor = {}
                THEN Done(r, "nouser", LoginFailedNoUser)
                ELSE LET user == CHOOSE u \in cursor : TRUE IN
                     IF ~authenticate(user, parsed[3])
                     THEN Done([r EXCEPT !.girderUser = user], "badpw",
                               LoginFailedBadPassword)
                     ELSE [r EXCEPT !.pc = "token", !.doc = user]]
    /\ StoresUnchanged /\ ClockUnchanged /\ DocsUnchanged
    /\ UNCHANGED <<jar, deleted, loggedOut>>

\* user.py, 161-168: look the identity up and verify the password
LoginFind(c) ==
    /\ req[c].op = "login" /\ req[c].pc = "find"
    /\ LET r == req[c]
           parsed == ParseAuth(r.auth)
           cursor == findByLogin(users, LoginField(parsed[2]), parsed[2])
       IN  req' = [req EXCEPT ![c] =
                IF cursor = {}
                THEN Done(r, "nouser", LoginFailedNoUser)
                ELSE LET user == CHOOSE u \in cursor : TRUE IN
                     IF ~authenticate(user, parsed[3])
                     THEN Done(r, "badpw", LoginFailedBadPassword)
                     ELSE [r EXCEPT !.pc = "token", !.doc = user]]
    /\ StoresUnchanged /\ ClockUnchanged /\ DocsUnchanged
    /\ UNCHANGED <<jar, deleted, loggedOut>>

\* user.py, 170-181 with _sendAuthTokenCookie (67-79)
LoginSendToken(c) ==
    /\ req[c].op = "login" /\ req[c].pc = "token"
    /\ nextTok <= MaxTokens
    /\ LET r == req[c]
           user == r.doc
           token == createToken(nextTok, user, lifetime, now)
       IN  /\ tokens' = tokens \cup {token}
           /\ req' = [req EXCEPT ![c] =
                Done([r EXCEPT !.girderUser = user, !.cur = user,
                               !.newTokens = {token._id},
                               !.respCookie = AuthCookie(user, token, lifetime)],
                     "basic", LoginBody(user, token, user))]
    /\ nextTok' = nextTok + 1
    /\ ClockUnchanged /\ DocsUnchanged
    /\ UNCHANGED <<users, nextId, jar, deleted, loggedOut>>

(* ------------------------------ logout ---------------------------------- *)
\* a logout that also revokes the token its cookie names
Logout_mut(c, cookie) ==
    /\ req[c].pc = "idle"
    /\ LET r == Arrive("logout", cookie) IN
       req' = [req EXCEPT ![c] =
                Done([r EXCEPT !.respCookie = DeletedCookie], "",
                     Ok("Logged out."))]
    /\ loggedOut' = loggedOut \cup
            {k._id : k \in {t \in tokens : cookie.kind = "json"
                                           /\ t._id = FromStr(cookie.token)}}
    /\ tokens' = {t \in tokens : ~(cookie.kind = "json"
                                    /\ t._id = FromStr(cookie.token))}
    /\ ClockUnchanged /\ DocsUnchanged
    /\ UNCHANGED <<users, nextId, nextTok, jar, deleted>>

\* user.py, 189-191 with _deleteAuthTokenCookie (81-86)
Logout(c, cookie) ==
    /\ req[c].pc = "idle"
    /\ LET r == Arrive("logout", cookie) IN
       req' = [req EXCEPT ![c] =
                Done([r EXCEPT !.respCookie = DeletedCookie], "",
                     Ok("Logged out."))]
    /\ loggedOut' = loggedOut \cup
            {k._id : k \in {t \in tokens : cookie.kind = "json"
                                           /\ t._id = FromStr(cookie.token)}}
    /\ StoresUnchanged /\ ClockUnchanged /\ DocsUnchanged
    /\ UNCHANGED <<jar, deleted>>

(* ---------------------------- createUser -------------------------------- *)
\* user.py, 202-204: the parameters createUser reads
CreateUserArgs == {"login", "password", "email", "firstName", "lastName"}

\* user.py, 198-204: the parameter check, then the model validates
CreateUser(c, cookie, params) ==
    /\ req[c].pc = "idle"
    /\ LET r == [Arrive("createUser", cookie) EXCEPT !.params = params] IN
       req' = [req EXCEPT ![c] =
                IF ~requireParams(RequiredParams, params)
                THEN Done(r, "missing", MissingParameter)
                ELSE IF ~(CreateUserArgs \subseteq DOMAIN params)
                THEN Done(r, "keyerror", KeyError)
                ELSE IF Duplicate(users, params.login, params.email)
                THEN Done(r, "conflict", Conflict)
                ELSE [r EXCEPT !.pc = "insert"]]
    /\ StoresUnchanged /\ ClockUnchanged /\ DocsUnchanged
    /\ UNCHANGED <<jar, deleted, loggedOut>>

\* user.py, 201-204: the model inserts; the unique indexes reject a duplicate
CreateUserInsert(c) ==
    /\ req[c].op = "createUser" /\ req[c].pc = "insert"
    /\ LET r == req[c]
           p == r.params
           user == NewUserDoc(nextId, p.login, p.password, p.email,
                              p.firstName, p.lastName, FALSE, TRUE, now)
       IN  IF Duplicate(users, p.login, p.email)
           THEN /\ req' = [req EXCEPT ![c] = Done(r, "rejected", Conflict)]
                /\ UNCHANGED <<users, nextId>>
           ELSE /\ nextId <= MaxId
                /\ users' = users \cup {user}
                /\ nextId' = nextId + 1
                /\ req' = [req EXCEPT ![c] = [r EXCEPT !.pc = "token",
                                                       !.doc = user]]
    /\ ClockUnchanged /\ DocsUnchanged
    /\ UNCHANGED <<tokens, nextTok, jar, deleted, loggedOut>>

\* user.py, 205-209 with _sendAuthTokenCookie (67-79)
CreateUserSendToken(c) ==
    /\ req[c].op = "createUser" /\ req[c].pc = "token"
    /\ nextTok <= MaxTokens
    /\ LET r == req[c]
           user == r.doc
           token == createToken(nextTok, user, lifetime, now)
       IN  /\ tokens' = tokens \cup {token}
           /\ req' = [req EXCEPT ![c] =
                Done([r EXCEPT !.girderUser = user, !.cur = user,
                               !.newTokens = {token._id},
                               !.respCookie = AuthCookie(user, token, lifetime)],
                     "created", [Ok("") EXCEPT !.user = _filter(user, user)])]
    /\ nextTok' = nextTok + 1
    /\ ClockUnchanged /\ DocsUnchanged
    /\ UNCHANGED <<users, nextId, jar, deleted, loggedOut>>

(* ---------------------------- deleteUser -------------------------------- *)
\* user.py, 221: the loader resolves the target at ADMIN level
DeleteUser(c, cookie, id) ==
    /\ req[c].pc = "idle"
    /\ LET r == [Arrive("deleteUser", cookie) EXCEPT !.id = id]
           currentUser == getCurrentUser(r, users, tokens, now)[1]
           l == loadmodel(users, id, currentUser, deleteUserLevel)
           rr == [r EXCEPT !.cur = currentUser, !.doc = l[2]]
       IN  req' = [req EXCEPT ![c] =
                CASE l[1] = "notfound" -> Done(rr, "notfound", NotFound)
                  [] l[1] = "forbidden" -> Done(rr, "forbidden", Forbidden)
                  [] l[1] = "ok" -> [rr EXCEPT !.pc = "remove"]]
    /\ StoresUnchanged /\ ClockUnchanged /\ DocsUnchanged
    /\ UNCHANGED <<jar, deleted, loggedOut>>

\* user.py, 223-224
DeleteUserRemove(c) ==
    /\ req[c].op = "deleteUser" /\ req[c].pc = "remove"
    /\ LET r == req[c]
           userToDelete == r.doc
       IN  /\ users' = {u \in users : u._id # userToDelete._id}
           /\ deleted' = deleted \cup {userToDelete._id}
           /\ req' = [req EXCEPT ![c] =
                Done(r, "removed",
                     [Ok("") EXCEPT !.message =
                         [text |-> "Deleted user %s.",
                          arg |-> userToDelete.login]])]
    /\ ClockUnchanged /\ DocsUnchanged
    /\ UNCHANGED <<tokens, nextId, nextTok, jar, loggedOut>>

(* ------------------------ client and environment ------------------------ *)
\* the client reads the response and keeps the cookie it sets
Respond(c) ==
    /\ req[c].pc = "done"
    /\ jar' = [jar EXCEPT ![c] =
                IF req[c].respCookie.set THEN req[c].respCookie.value ELSE @]
    /\ req' = [req EXCEPT ![c] = Idle]
    /\ StoresUnchanged /\ ClockUnchanged /\ DocsUnchanged
    /\ UNCHANGED <<deleted, loggedOut>>

\* the clock advances by a day or past a default token lifetime
TickSteps == {1, 181}

Tick ==
    /\ ticks < MaxTicks
    /\ \E d \in TickSteps : now' = now + d
    /\ ticks' = ticks + 1
    /\ StoresUnchanged /\ DocsUnchanged
    /\ UNCHANGED <<lifetime, req, jar, deleted, loggedOut>>

(* ------------------------------ inputs ---------------------------------- *)
SeedAdmin ==
    NewUserDoc(1, <<"a">>, <<"p">>, <<"a", "@">>, <<"f">>, <<"l">>,
               TRUE, TRUE, 0)
SeedPrivate ==
    NewUserDoc(2, <<"b">>, <<"q", ":">>, <<"b", "@">>, <<"f">>, <<"l">>,
               FALSE, FALSE, 0)

CredTexts ==
    { <<"a", ":", "p">>, <<" ", "A", " ", ":", "p">>, <<"a", "@", ":", "p">>,
      <<"a", ":", "q">>, <<"z", ":", "p">>, <<"b", ":", "q", ":">>,
      <<"c", ":", "p">>, <<"a">> }

AuthHeaders ==
    {NoHeader, B64Header("Bearer", <<"a", ":", "p">>), BadB64Header("Basic ")}
    \cup {B64Header("Basic ", t) : t \in CredTexts}

FullParams(login, email) ==
    [n \in ParamNames |->
        CASE n = "login" -> login
          [] n = "email" -> email
          [] n = "password" -> <<"p">>
          [] n = "firstName" -> <<"f">>
          [] n = "lastName" -> <<"l">>]

Without(params, n) == [k \in (DOMAIN params) \ {n} |-> params[k]]

ParamInputs ==
    {FullParams(l, e) : l \in {<<"a">>, <<"c">>}, e \in {<<"a", "@">>, <<"c", "@">>}}
    \cup {Without(FullParams(<<"c">>, <<"c", "@">>), n) : n \in ParamNames}

CookieOf(t) == JsonDumps(Str(t.userId), Str(t._id))

\* what a client may present: its own cookie, none, a cookie naming a token
\* that was never issued, or the cookie of any issued token
CookieInputs(c) ==
    {jar[c], NoCookie, JsonDumps(Str(1), Str(-1))}
    \cup {CookieOf(t) : t \in tokens}

Ids == 1..MaxId

(* ------------------- documentation state at rest ------------------------ *)
\* an absent value (Python's None) and a present one
Absent == [present |-> FALSE, value |-> ""]
Present(v) == [present |-> TRUE, value |-> v]

\* no Description under study
NoDescription ==
    [summary |-> "", notes |-> Absent, responseClass |-> Absent,
     params |-> 0, errorResponses |-> 0, heap |-> <<>>,
     ret |-> "", given |-> "", calls |-> <<>>,
     exported |-> FALSE,
     export |-> [summary |-> "", notes |-> Absent, parameters |-> 0,
                 errorResponses |-> 0, responseClass |-> Absent],
     snapshot |-> [summary |-> "", notes |-> Absent, parameters |-> <<>>,
                   errorResponses |-> <<>>, responseClass |-> Absent]]

\* no route registered, nothing asked
NoDocs ==
    [phase |-> "startup", routes |-> <<>>, discovery |-> {}, log |-> <<>>,
     reply |-> [kind |-> "none", status |-> "", message |-> Msg(""), code |-> 0,
                apis |-> <<>>, asked |-> <<>>]]

(* --------------------------- specification ------------------------------ *)
DefaultLifetime == 180

Init ==
    /\ users = {SeedAdmin, SeedPrivate}
    /\ tokens = {}
    /\ nextId = 3
    /\ nextTok = 1
    /\ now = 0
    /\ ticks = 0
    /\ lifetime = DefaultLifetime
    /\ req = [c \in ConcClients |-> Idle]
    /\ jar = [c \in ConcClients |-> NoCookie]
    /\ deleted = {}
    /\ loggedOut = {}
    /\ desc = NoDescription
    /\ docs = NoDocs

Next ==
    \/ \E c \in Clients : \E k \in CookieInputs(c) : Find(c, k)
    \/ \E c \in Clients : \E k \in CookieInputs(c) : \E id \in Ids : GetUser(c, k, id)
    \/ \E c \in Clients : \E k \in CookieInputs(c) : GetMe(c, k)
    \/ \E c \in Clients : \E k \in CookieInputs(c) : \E h \in AuthHeaders : Login(c, k, h)
    \/ \E c \in Clients : LoginFind(c)
    \/ \E c \in Clients : LoginSendToken(c)
    \/ \E c \in Clients : \E k \in CookieInputs(c) : Logout(c, k)
    \/ \E c \in Clients : \E p \in ParamInputs : CreateUser(c, jar[c], p)
    \/ \E c \in Clients : CreateUserInsert(c)
    \/ \E c \in Clients : CreateUserSendToken(c)
    \/ \E c \in Clients : \E k \in CookieInputs(c) : \E id \in Ids : DeleteUser(c, k, id)
    \/ \E c \in Clients : DeleteUserRemove(c)
    \/ \E c \in Clients : Respond(c)
    \/ Tick

Spec == Init /\ [][Next]_vars

(* ---------------------- concurrent specification ------------------------ *)
\* a session the administrator opened before the requests under study
SeedToken == createToken(0, SeedAdmin, DefaultLifetime, 0)

ConcParamInputs ==
    {FullParams(<<"c">>, <<"c", "@">>), FullParams(<<"e">>, <<"c", "@">>),
     FullParams(<<"c">>, <<"a", "@">>)}

ConcAuthHeaders ==
    {B64Header("Basic ", <<"c", ":", "p">>),
     B64Header("Basic ", <<"b", ":", "q", ":">>)}

InitConc ==
    /\ users = {SeedAdmin, SeedPrivate}
    /\ tokens = {SeedToken}
    /\ nextId = 3
    /\ nextTok = 1
    /\ now = 0
    /\ ticks = 0
    /\ lifetime = DefaultLifetime
    /\ req = [c \in ConcClients |-> Idle]
    /\ jar = [c \in ConcClients |-> NoCookie]
    /\ deleted = {}
    /\ loggedOut = {}
    /\ desc = NoDescription
    /\ docs = NoDocs

NextConc ==
    \/ \E c \in ConcClients : \E p \in ConcParamInputs : CreateUser(c, jar[c], p)
    \/ \E c \in ConcClients : CreateUserInsert(c)
    \/ \E c \in ConcClients : CreateUserSendToken(c)
    \/ \E c \in ConcClients : \E h \in ConcAuthHeaders : Login(c, NoCookie, h)
    \/ \E c \in ConcClients : LoginFind(c)
    \/ \E c \in ConcClients : LoginSendToken(c)
    \/ \E c \in ConcClients : \E id \in Ids : DeleteUser(c, CookieOf(SeedToken), id)
    \/ \E c \in ConcClients : DeleteUserRemove(c)
    \/ \E c \in ConcClients : Respond(c)

SpecConc == InitConc /\ [][NextConc]_vars

(* ----------------------- settings specification ------------------------- *)
Digit(ch) ==
    CASE ch = "0" -> 0 [] ch = "1" -> 1 [] ch = "2" -> 2 [] ch = "3" -> 3
      [] ch = "4" -> 4 [] ch = "5" -> 5 [] ch = "6" -> 6 [] ch = "7" -> 7
      [] ch = "8" -> 8 [] ch = "9" -> 9

RECURSIVE Digits(_)
Digits(s) ==
    IF s = <<>> THEN 0 ELSE 10 * Digits(SubSeq(s, 1, Len(s) - 1)) + Digit(s[Len(s)])

\* int(text) for a decimal numeral with an optional sign
IntOf(s) == IF Head(s) = "-" THEN 0 - Digits(Tail(s)) ELSE Digits(s)

\* the stored cookie-lifetime setting: unset, or a numeral
Unset == <<>>

\* user.py, 34-35: int(self.model('setting').get(COOKIE_LIFETIME, default=180))
CookieLifetime(setting) ==
    IF setting = Unset THEN DefaultLifetime ELSE IntOf(setting)

SettingInputs == {Unset, <<"1">>, <<"3", "0">>, <<"0">>, <<"-", "1">>}

SettingAuthHeaders ==
    {B64Header("Basic ", <<"a", ":", "p">>), B64Header("Basic ", <<"a", ":", "q">>)}

SettingParamInputs == {FullParams(<<"c">>, <<"c", "@">>)}

InitSettings ==
    /\ users = {SeedAdmin, SeedPrivate}
    /\ tokens = {}
    /\ nextId = 3
    /\ nextTok = 1
    /\ now = 0
    /\ ticks = 0
    /\ \E setting \in SettingInputs : lifetime = CookieLifetime(setting)
    /\ req = [c \in ConcClients |-> Idle]
    /\ jar = [c \in ConcClients |-> NoCookie]
    /\ deleted = {}
    /\ loggedOut = {}
    /\ desc = NoDescription
    /\ docs = NoDocs

NextSettings ==
    \/ \E c \in Clients : \E h \in SettingAuthHeaders : Login(c, jar[c], h)
    \/ \E c \in Clients : LoginFind(c)
    \/ \E c \in Clients : LoginSendToken(c)
    \/ \E c \in Clients : \E p \in SettingParamInputs : CreateUser(c, jar[c], p)
    \/ \E c \in Clients : CreateUserInsert(c)
    \/ \E c \in Clients : CreateUserSendToken(c)
    \/ \E c \in Clients : Respond(c)
    \/ Tick

SpecSettings == InitSettings /\ [][NextSettings]_vars

(* -------------------------- Description --------------------------------- *)
\* how many mutator calls are made on the Description
MaxCalls == 3

\* describe.py, 43-48: Description(summary); the two lists are objects of
\* their own, held by reference
NewDescription(summary) ==
    [NoDescription EXCEPT !.summary = summary, !.given = summary,
                          !.params = 1, !.errorResponses = 2,
                          !.heap = << <<>>, <<>> >>]

\* describe.py, 50-60: the dict holds the strings and the two list references
asDict(d) ==
    [summary |-> d.summary, notes |-> d.notes, parameters |-> d.params,
     errorResponses |-> d.errorResponses, responseClass |-> d.responseClass]

\* what a reader of an exported dict sees: the lists as they are now
Deref(d, dict) ==
    [dict EXCEPT !.parameters = d.heap[dict.parameters],
                 !.errorResponses = d.heap[dict.errorResponses]]

\* describe.py, 62-64
responseClass(d, obj) == [d EXCEPT !.responseClass = Present(obj), !.ret = "self"]

\* a param that puts the newest declaration first
param_prepend(d, name, description, paramType, dataType, required) ==
    [d EXCEPT !.heap[d.params] =
                  <<[name |-> name, description |-> description,
                     paramType |-> paramType, dataType |-> dataType,
                     allowMultiple |-> FALSE, required |-> required]>> \o @,
              !.ret = "self"]

\* describe.py, 66-81
param(d, name, description, paramType, dataType, required) ==
    [d EXCEPT !.heap[d.params] =
                  Append(@, [name |-> name, description |-> description,
                             paramType |-> paramType, dataType |-> dataType,
                             allowMultiple |-> FALSE, required |-> required]),
              !.ret = "self"]

\* describe.py, 83-85
notes(d, text) == [d EXCEPT !.notes = Present(text), !.ret = "self"]

\* describe.py, 87-97
errorResponse(d, reason, code) ==
    [d EXCEPT !.heap[d.errorResponses] =
                  Append(@, [message |-> reason, code |-> code]),
              !.ret = "self"]

\* a mutator call as the history keeps it
Call(kind, name, description, paramType, dataType, required, text, code) ==
    [kind |-> kind, name |-> name, description |-> description,
     paramType |-> paramType, dataType |-> dataType, required |-> required,
     text |-> text, code |-> code]

Logged(d, call) == [d EXCEPT !.calls = Append(@, call)]

UserUnchanged ==
    UNCHANGED <<users, tokens, nextId, nextTok, now, ticks, lifetime, req, jar,
                deleted, loggedOut>>

\* the param declarations user.py makes: defaults, a path parameter, an int
ParamDecls ==
    { <<"text", "Full text search.", "query", "string", FALSE>>,
      <<"id", "The ID of the user.", "path", "string", TRUE>>,
      <<"id", "Result set size limit.", "query", "int", FALSE>> }

ErrorDecls ==
    { <<"A parameter was invalid.", 400>>, <<"ID was invalid.", 400>>,
      <<"You do not have permission to see this user.", 403>> }

NotesTexts == {"Pass your username and password.", "Attempts to delete your cookie."}

ResponseClasses == {"User", "Token"}

Summaries == {"Get a user by ID."}

Param(p) ==
    /\ Len(desc.calls) < MaxCalls
    /\ desc' = Logged(param(desc, p[1], p[2], p[3], p[4], p[5]),
                      Call("param", p[1], p[2], p[3], p[4], p[5], "", 0))
    /\ UserUnchanged /\ UNCHANGED docs

Notes(text) ==
    /\ Len(desc.calls) < MaxCalls
    /\ desc' = Logged(notes(desc, text),
                      Call("notes", "", "", "", "", FALSE, text, 0))
    /\ UserUnchanged /\ UNCHANGED docs

ErrorResponse(e) ==
    /\ Len(desc.calls) < MaxCalls
    /\ desc' = Logged(errorResponse(desc, e[1], e[2]),
                      Call("errorResponse", "", "", "", "", FALSE, e[1], e[2]))
    /\ UserUnchanged /\ UNCHANGED docs

ResponseClass(obj) ==
    /\ Len(desc.calls) < MaxCalls
    /\ desc' = Logged(responseClass(desc, obj),
                      Call("responseClass", "", "", "", "", FALSE, obj, 0))
    /\ UserUnchanged /\ UNCHANGED docs

\* a caller exports the Description and keeps the dict
AsDict ==
    /\ ~desc.exported
    /\ desc' = [desc EXCEPT !.exported = TRUE, !.export = asDict(desc),
                            !.snapshot = Deref(desc, asDict(desc))]
    /\ UserUnchanged /\ UNCHANGED docs

InitBuilder ==
    /\ users = {SeedAdmin, SeedPrivate}
    /\ tokens = {}
    /\ nextId = 3
    /\ nextTok = 1
    /\ now = 0
    /\ ticks = 0
    /\ lifetime = DefaultLifetime
    /\ req = [c \in ConcClients |-> Idle]
    /\ jar = [c \in ConcClients |-> NoCookie]
    /\ deleted = {}
    /\ loggedOut = {}
    /\ \E summary \in Summaries : desc = NewDescription(summary)
    /\ docs = NoDocs

NextBuilder ==
    \/ \E p \in ParamDecls : Param(p)
    \/ \E text \in NotesTexts : Notes(text)
    \/ \E e \in ErrorDecls : ErrorResponse(e)
    \/ \E obj \in ResponseClasses : ResponseClass(obj)
    \/ AsDict

SpecBuilder == InitBuilder /\ [][NextBuilder]_vars

(* ------------------------ route documentation --------------------------- *)
\* how many routes are registered at startup
MaxRoutes == 3

\* the order of characters in resource names
Ord(ch) == CASE ch = "a" -> 1 [] ch = "b" -> 2 [] ch = "z" -> 3 [] OTHER -> 0

\* string comparison a < b
RECURSIVE LexLess(_, _)
LexLess(a, b) ==
    IF b = <<>> THEN FALSE
    ELSE IF a = <<>> THEN TRUE
    ELSE IF Head(a) # Head(b) THEN Ord(Head(a)) < Ord(Head(b))
    ELSE LexLess(Tail(a), Tail(b))

\* sorted(names)
RECURSIVE Sorted(_)
Sorted(S) ==
    IF S = {} THEN <<>>
    ELSE LET least == CHOOSE x \in S : \A y \in S \ {x} : LexLess(x, y)
         IN  <<least>> \o Sorted(S \ {least})

\* the resources with an entry in docs.routes
Registered(routes) == {routes[i].resource : i \in 1..Len(routes)}

\* docs.routes[resource]
RoutesOf(routes, resource) ==
    LET i == CHOOSE k \in 1..Len(routes) : routes[k].resource = resource
    IN  routes[i].entries

HasRoute(routes, resource, method, path) ==
    /\ resource \in Registered(routes)
    /\ \E k \in 1..Len(RoutesOf(routes, resource)) :
          /\ RoutesOf(routes, resource)[k].path = path
          /\ \E o \in 1..Len(RoutesOf(routes, resource)[k].operations) :
                RoutesOf(routes, resource)[k].operations[o].httpMethod = method

\* one more operation under a path, a new path entered before the others
AddOperation_front(entries, path, op) ==
    IF \E k \in 1..Len(entries) : entries[k].path = path
    THEN [k \in 1..Len(entries) |->
             IF entries[k].path = path
             THEN [entries[k] EXCEPT !.operations = Append(@, op)]
             ELSE entries[k]]
    ELSE <<[path |-> path, operations |-> <<op>>]>> \o entries

\* one more operation under a path, the path entered last if it is new
AddOperation(entries, path, op) ==
    IF \E k \in 1..Len(entries) : entries[k].path = path
    THEN [k \in 1..Len(entries) |->
             IF entries[k].path = path
             THEN [entries[k] EXCEPT !.operations = Append(@, op)]
             ELSE entries[k]]
    ELSE Append(entries, [path |-> path, operations |-> <<op>>])

\* the route table after a registration
AddRoute(routes, resource, path, op) ==
    IF resource \in Registered(routes)
    THEN [k \in 1..Len(routes) |->
             IF routes[k].resource = resource
             THEN [routes[k] EXCEPT !.entries = AddOperation(@, path, op)]
             ELSE routes[k]]
    ELSE Append(routes, [resource |-> resource,
                         entries |-> AddOperation(<<>>, path, op)])

NoReply ==
    [kind |-> "none", status |-> "", message |-> Msg(""), code |-> 0,
     apis |-> <<>>, asked |-> <<>>]

\* a catalog listing that names every registered resource
listResources_all(d) ==
    [NoReply EXCEPT !.kind = "listResources", !.status = "ok", !.code = 200,
        !.apis = [i \in 1..Len(Sorted(Registered(d.routes))) |->
                     [path |-> <<"/">> \o Sorted(Registered(d.routes))[i],
                      operations |-> <<>>]]]

\* describe.py, 114-122
listResources(d) ==
    [NoReply EXCEPT !.kind = "listResources", !.status = "ok", !.code = 200,
        !.apis = [i \in 1..Len(Sorted(d.discovery)) |->
                     [path |-> <<"/">> \o Sorted(d.discovery)[i],
                      operations |-> <<>>]]]

InvalidResource(resource) ==
    [NoReply EXCEPT !.kind = "describeResource", !.status = "error",
        !.message = [text |-> "Invalid resource: {}", arg |-> resource],
        !.code = 400, !.asked = resource]

\* a describeResource that only knows the resources of the discovery index
describeResource_discovery(d, resource) ==
    IF resource \notin d.discovery
    THEN InvalidResource(resource)
    ELSE [NoReply EXCEPT !.kind = "describeResource", !.status = "ok",
             !.code = 200, !.asked = resource,
             !.apis = RoutesOf(d.routes, resource)]

\* describe.py, 124-135
describeResource(d, resource) ==
    IF resource \notin Registered(d.routes)
    THEN InvalidResource(resource)
    ELSE [NoReply EXCEPT !.kind = "describeResource", !.status = "ok",
             !.code = 200, !.asked = resource,
             !.apis = RoutesOf(d.routes, resource)]

ResourceNames == {<<"a">>, <<"a", "b">>, <<"b">>}

RouteInputs == {<<"GET", "/">>, <<"GET", "/{id}">>, <<"POST", "/">>}

AskedNames == ResourceNames \cup {<<"z">>}

\* Resource.route(method, route, handler, nodoc) at startup
Register(resource, route, docVisible) ==
    /\ docs.phase = "startup"
    /\ Len(docs.log) < MaxRoutes
    /\ IF HasRoute(docs.routes, resource, route[1], route[2])
       THEN docs' = [docs EXCEPT !.reply =
                [NoReply EXCEPT !.kind = "register", !.status = "error",
                                !.message = Msg("DuplicateRouteError"),
                                !.asked = resource]]
       ELSE docs' = [docs EXCEPT
                !.routes = AddRoute(@, resource, route[2],
                              [httpMethod |-> route[1],
                               summary |-> IF docVisible
                                           THEN Present("Get a user by ID.")
                                           ELSE Absent]),
                !.discovery = IF docVisible THEN @ \cup {resource} ELSE @,
                !.log = Append(@, [resource |-> resource, method |-> route[1],
                                   path |-> route[2], docVisible |-> docVisible]),
                !.reply = NoReply]
    /\ UserUnchanged /\ UNCHANGED desc

\* startup is over: the service takes requests
StartServing ==
    /\ docs.phase = "startup"
    /\ docs' = [docs EXCEPT !.phase = "serving", !.reply = NoReply]
    /\ UserUnchanged /\ UNCHANGED desc

\* GET /describe
ListResources ==
    /\ docs.phase = "serving"
    /\ docs' = [docs EXCEPT !.reply = listResources(docs)]
    /\ UserUnchanged /\ UNCHANGED desc

\* GET /describe/{resource}
DescribeResource(resource) ==
    /\ docs.phase = "serving"
    /\ docs' = [docs EXCEPT !.reply = describeResource(docs, resource)]
    /\ UserUnchanged /\ UNCHANGED desc

InitDocs ==
    /\ users = {SeedAdmin, SeedPrivate}
    /\ tokens = {}
    /\ nextId = 3
    /\ nextTok = 1
    /\ now = 0
    /\ ticks = 0
    /\ lifetime = DefaultLifetime
    /\ req = [c \in ConcClients |-> Idle]
    /\ jar = [c \in ConcClients |-> NoCookie]
    /\ deleted = {}
    /\ loggedOut = {}
    /\ desc = NoDescription
    /\ docs = NoDocs

NextDocs ==
    \/ \E resource \in ResourceNames : \E route \in RouteInputs :
          \E docVisible \in BOOLEAN : Register(resource, route, docVisible)
    \/ StartServing
    \/ ListResources
    \/ \E resource \in AskedNames : DescribeResource(resource)

SpecDocs == InitDocs /\ [][NextDocs]_vars

(* ======================================================================== *)
(*                               properties                                 *)
(* ======================================================================== *)
Finished(c, op) == req[c].op = op /\ req[c].pc = "done"

AllClients == DOMAIN req

\* the identity a finished request returned fields of
TargetOf(r) ==
    CASE r.op = "getMe" -> r.cur
      [] r.op = "login" /\ r.branch = "cookie" -> r.cur
      [] OTHER -> r.doc

\* the requester _filter resolved for a finished request
RequesterOf(r) == IF r.girderUser # None THEN r.girderUser ELSE r.cur

(* ------------------------------- C1 ------------------------------------- *)
\* C1: a login with a well-formed Basic header fails in the same way whether
\* the login identifier matches no identity or the password does not verify:
\* a RestException "Login failed." with status 403, no cookie and no token.
C1_SameLoginFailure ==
    \A c \in AllClients :
        (Finished(c, "login") /\ req[c].branch \in {"nouser", "badpw"}) =>
            /\ ParseAuth(req[c].auth)[1] = "ok"
            /\ req[c].result.status = "error"
            /\ req[c].result.kind = "RestException"
            /\ req[c].result.message = [text |-> "Login failed.", arg |-> <<>>]
            /\ req[c].result.code = 403
            /\ req[c].result = LoginFailedNoUser
            /\ ~req[c].respCookie.set
            /\ req[c].newTokens = {}

C1_Witness ==
    \E c \in AllClients : Finished(c, "login") /\ req[c].branch = "badpw"

(* ------------------------------- C2 ------------------------------------- *)
\* the step that completes a login of client c with success
LoginSucceeds(c) ==
    /\ req[c].op = "login" \/ req[c].pc = "idle"
    /\ req[c].pc # "done"
    /\ req'[c].op = "login" /\ req'[c].pc = "done"
    /\ req'[c].result.status = "ok"

\* the store has exactly one token more, the returned identity owns it, and
\* the returned authToken and the cookie both carry the two ids
IssuedOneToken(c) ==
    \E t \in tokens' \ tokens :
        /\ tokens' = tokens \cup {t}
        /\ ~\E k \in tokens : k._id = t._id
        /\ t.userId = req'[c].result.user._id
        /\ req'[c].result.authToken.token = t._id
        /\ req'[c].result.authToken.userId = t.userId
        /\ req'[c].respCookie.set
        /\ req'[c].respCookie.value.kind = "json"
        /\ FromStr(req'[c].respCookie.value.userId) = t.userId
        /\ FromStr(req'[c].respCookie.value.token) = t._id

\* C2 as stated: every login that returns success has issued a new token.
C2_EveryLoginIssuesToken ==
    [][\A c \in AllClients : LoginSucceeds(c) => IssuedOneToken(c)]_vars

\* C2 amended: every login that returns success for a request that did not
\* resolve to an identity through its session cookie has issued one new
\* token, owned by the returned identity and named by authToken and cookie.
C2_BasicLoginIssuesToken ==
    [][\A c \in AllClients :
          (LoginSucceeds(c) /\ req'[c].branch # "cookie") => IssuedOneToken(c)]_vars

C2_Witness ==
    \E c \in AllClients :
        /\ Finished(c, "login") /\ req[c].branch = "basic"
        /\ req[c].result.status = "ok"
        /\ req[c].newTokens # {}

(* ------------------------------- C3 ------------------------------------- *)
\* C3: a login that does not resolve to an identity through its cookie and
\* whose Authorization header is absent, not Basic, not base64 or not of the
\* shape login:password ends in a reported client error.
C3_MalformedHeaderIsClientError ==
    \A c \in AllClients :
        (Finished(c, "login") /\ req[c].branch # "cookie"
         /\ ParseAuth(req[c].auth)[1] # "ok") =>
            /\ req[c].result.status = "error"
            /\ req[c].result.kind = "RestException"
            /\ req[c].result.code \in 400..499

(* ------------------------------- C4 ------------------------------------- *)
\* the fields the claim lets every requester see, and administrators only
VisibleAlways == {"_id", "login", "public", "firstName", "lastName", "admin",
                  "created"}
VisibleToAdmin == {"size", "email", "groups", "groupInvites"}

\* what the requester may see of target, stated on the returned object f
WellFiltered(f, target, requester) ==
    LET level == getAccessLevel(target, requester) IN
    /\ DOMAIN f \subseteq VisibleAlways \cup VisibleToAdmin \cup {"_accessLevel"}
    /\ (DOMAIN f) \cap VisibleToAdmin # {} => level = AccessType.ADMIN
    /\ "_accessLevel" \in DOMAIN f /\ f._accessLevel = level
    /\ \A k \in (DOMAIN f) \ {"_accessLevel"} : f[k] = target[k]

\* C4: every identity an endpoint returns holds only the base fields, the
\* four administrative fields only at ADMIN level, no other stored field,
\* and the requester's access level on that identity.
C4_OnlyVisibleFields ==
    \A c \in AllClients :
        req[c].pc = "done" =>
            /\ req[c].result.user # None =>
                  WellFiltered(req[c].result.user, TargetOf(req[c]),
                               RequesterOf(req[c]))
            /\ \A f \in req[c].result.list :
                  \E u \in users :
                      u._id = f._id /\ WellFiltered(f, u, RequesterOf(req[c]))

C4_Witness ==
    \E c \in AllClients :
        /\ Finished(c, "getUser")
        /\ req[c].result.user # None
        /\ req[c].cur # None
        /\ req[c].result.user._accessLevel = AccessType.READ

(* ------------------------------- C5 ------------------------------------- *)
Requesters == users \cup {None}

C6_Outcome ==
    \A c \in AllClients :
        (req[c].op = "deleteUser" /\ req[c].doc # None) =>
            IF getAccessLevel(req[c].doc, req[c].cur) < AccessType.ADMIN
            THEN /\ req[c].pc = "done"
                 /\ req[c].result.status = "error"
                 /\ req[c].result.kind = "ForbiddenError"
                 /\ req[c].result.code = 403
            ELSE \/ req[c].pc = "remove"
                 \/ /\ req[c].pc = "done"
                    /\ req[c].result.status = "ok"
                    /\ req[c].result.message =
                          [text |-> "Deleted user %s.", arg |-> req[c].doc.login]
                    /\ req[c].doc._id \in deleted
                    /\ ~\E u \in users : u._id = req[c].doc._id

\* a getById that arrives after its target was deleted
C6_GoneAfterDelete ==
    \A c \in AllClients :
        (Finished(c, "getUser") /\ req[c].branch = "afterDelete") =>
            /\ req[c].result.status = "error"
            /\ req[c].result.kind = "NotFoundError"
            /\ req[c].result.user = None

\* a deleteUser that arrives and fails changes no store
C6_FailureKeepsStore ==
    \A c \in AllClients :
        (req[c].pc = "idle" /\ req'[c].op = "deleteUser"
         /\ req'[c].result.status = "error") =>
            users' = users /\ tokens' = tokens /\ deleted' = deleted

\* C6: deleteUser fails with ForbiddenError and leaves the identity store
\* unchanged when the caller lacks ADMIN level on the target; with ADMIN
\* level it succeeds, names the deleted login in its message, and every
\* later getById for that id fails with NotFoundError.
C6_DeleteUser ==
    /\ [](C6_Outcome /\ C6_GoneAfterDelete)
    /\ [][C6_FailureKeepsStore]_vars

C6_Witness ==
    \E c \in AllClients :
        /\ Finished(c, "getUser") /\ req[c].branch = "afterDelete"
        /\ req[c].result.kind = "NotFoundError"

(* ------------------------------- C7 ------------------------------------- *)
CreateFields == {"login", "password", "email", "firstName", "lastName"}

NothingStored ==
    users' = users /\ tokens' = tokens /\ nextId' = nextId /\ nextTok' = nextTok

\* the arrival of a createUser that lacks a field or names a taken login or
\* email ends at once in the error, with no store touched
C7_FailsBeforeStore ==
    \A c \in AllClients :
        (req[c].pc = "idle" /\ req'[c].op = "createUser") =>
            LET p == req'[c].params
                complete == CreateFields \subseteq DOMAIN p
            IN  /\ ~complete =>
                      /\ req'[c].pc = "done"
                      /\ req'[c].result.status = "error"
                      /\ req'[c].result.kind = "MissingParameterError"
                      /\ NothingStored
                /\ (complete /\ \E u \in users :
                                    u.login = p.login \/ u.email = p.email) =>
                      /\ req'[c].pc = "done"
                      /\ req'[c].result.status = "error"
                      /\ req'[c].result.kind = "ConflictError"
                      /\ NothingStored

\* a createUser that failed has set no cookie and created no token
C7_FailureLeavesNothing ==
    \A c \in AllClients :
        (Finished(c, "createUser") /\ req[c].result.status = "error") =>
            /\ ~req[c].respCookie.set
            /\ req[c].newTokens = {}
            /\ req[c].doc = None
            /\ req[c].girderUser = None

\* C7: a createUser whose login or email is registered fails with
\* ConflictError, and one that lacks a required field fails too, with no
\* identity added, no token created and no cookie set.
C7_CreateUserFailure ==
    /\ []C7_FailureLeavesNothing
    /\ [][C7_FailsBeforeStore]_vars

C7_Witness ==
    \E c \in AllClients :
        /\ Finished(c, "createUser") /\ req[c].branch = "conflict"
        /\ req[c].result.kind = "ConflictError"

(* ------------------------------- C8 ------------------------------------- *)
Shares(p, q) == p.login = q.login \/ p.email = q.email

\* the createUser of client c has stored its identity
Inserted(c) ==
    /\ req[c].op = "createUser"
    /\ req[c].pc = "token" \/ (req[c].pc = "done" /\ req[c].result.status = "ok")

\* C8: under interleaved createUser requests no two stored identities share
\* a login or an email; of the requests for one login or email at most one
\* succeeds, and the ones that fail get ConflictError, no token, no cookie.
C8_UniqueUnderRaces ==
    /\ \A u \in users : \A v \in users :
          (u.login = v.login \/ u.email = v.email) => u = v
    /\ \A c \in AllClients : \A d \in AllClients :
          (c # d /\ Inserted(c) /\ Inserted(d)
           /\ Shares(req[c].params, req[d].params)) =>
              req[c].doc._id \in deleted \/ req[d].doc._id \in deleted
    /\ \A c \in AllClients :
          (Finished(c, "createUser") /\ req[c].result.status = "error") =>
              /\ req[c].result.kind = "ConflictError"
              /\ req[c].newTokens = {}
              /\ ~req[c].respCookie.set

C8_Witness ==
    \E c \in AllClients : \E d \in AllClients :
        /\ Finished(c, "createUser") /\ req[c].branch = "created"
        /\ Finished(d, "createUser") /\ req[d].branch = "rejected"
        /\ req[c].params.login = req[d].params.login

(* ------------------------------- C9 ------------------------------------- *)
\* logout succeeds for every caller; a request that presents the empty
\* cookie value resolves to no identity and getSelf answers "none"
C9_Outcome ==
    \A c \in AllClients :
        /\ Finished(c, "logout") =>
              /\ req[c].result.status = "ok"
              /\ req[c].result.message = [text |-> "Logged out.", arg |-> <<>>]
        /\ (req[c].pc = "done" /\ req[c].cookie.kind = "empty") =>
              /\ req[c].cur = None \/ req[c].girderUser # None
              /\ req[c].op = "getMe" =>
                    req[c].result.status = "ok" /\ req[c].result.user = None

\* the cookie a client holds once it has read logout's response resolves to
\* no identity
C9_ClearedCookieIsAnonymous ==
    \A c \in AllClients :
        (req[c].op = "logout" /\ req[c].pc = "done" /\ req'[c].pc = "idle") =>
            getCurrentUser([Idle EXCEPT !.cookie = jar'[c]],
                           users', tokens', now')[1] = None

\* C9: after logout a request that presents the cookie as logout left it
\* resolves to no identity and raises no error; logout itself never fails.
C9_LogoutThenAnonymous ==
    /\ []C9_Outcome
    /\ [][C9_ClearedCookieIsAnonymous]_vars

C9_Witness ==
    \E c \in AllClients :
        /\ Finished(c, "getMe") /\ req[c].cookie.kind = "empty"
        /\ jar[c].kind = "empty"
        /\ req[c].result.user = None
        /\ tokens # {}

(* ------------------------------- C10 ------------------------------------ *)
\* logout sets the cleared cookie and changes neither store
C10_LogoutFrame ==
    \A c \in AllClients :
        (req[c].pc = "idle" /\ req'[c].op = "logout") =>
            /\ users' = users /\ tokens' = tokens
            /\ nextId' = nextId /\ nextTok' = nextTok
            /\ req'[c].respCookie =
                  [set |-> TRUE, value |-> EmptyValue, path |-> "/", expires |-> 0]

\* a token a logout was called with is still accepted until it expires
C10_TokenSurvivesLogout ==
    \A c \in AllClients :
        (req[c].pc = "done"
         /\ req[c].op \in {"find", "getUser", "getMe", "login", "deleteUser"}
         /\ req[c].cookie.kind = "json") =>
            \A t \in tokens :
                (t._id = FromStr(req[c].cookie.token) /\ t._id \in loggedOut
                 /\ req[c].at <= t.expires /\ t.userId \notin deleted) =>
                    req[c].cur # None /\ req[c].cur._id = t.userId

\* C10: logout changes only the response cookie (empty value, path '/',
\* lifetime 0); the stores are unchanged and a token issued before logout is
\* accepted afterwards, until its expiry, from the pre-logout cookie value.
C10_LogoutOnlyClearsCookie ==
    /\ []C10_TokenSurvivesLogout
    /\ [][C10_LogoutFrame]_vars

C10_Witness ==
    \E c \in AllClients :
        /\ Finished(c, "getMe") /\ req[c].cookie.kind = "json"
        /\ FromStr(req[c].cookie.token) \in loggedOut
        /\ jar[c].kind = "empty"
        /\ req[c].cur # None

(* ------------------------------- C11 ------------------------------------ *)
\* C11: every stored token expires strictly after it was issued, whatever
\* value the cookie-lifetime setting was given.
C11_ExpiresAfterIssued ==
    \A t \in tokens : t.expires > t.created

(* ------------------------------- C12 ------------------------------------ *)
\* C12: every session cookie login or createUser sets has path '/' and a
\* lifetime of configuredDays * 86400 seconds, which is the lifetime of the
\* token the cookie names.
C12_CookieLifetime ==
    \A c \in AllClients :
        (req[c].pc = "done" /\ req[c].op \in {"login", "createUser"}
         /\ req[c].respCookie.set) =>
            /\ req[c].respCookie.path = "/"
            /\ req[c].respCookie.expires = lifetime * 86400
            /\ req[c].respCookie.value.kind = "json"
            /\ \E t \in tokens :
                  /\ t._id = FromStr(req[c].respCookie.value.token)
                  /\ (t.expires - t.created) * 86400 = req[c].respCookie.expires

C12_Witness ==
    \E c \in AllClients :
        /\ Finished(c, "login") /\ req[c].respCookie.set
        /\ lifetime = 30
        /\ req[c].respCookie.expires = 2592000

(* ------------------------------- C18 ------------------------------------ *)
\* the arrival of a login whose session cookie resolves to an identity ends
\* at once in success for that identity and its token, whatever the header
C18_CookieLoginStep ==
    \A c \in AllClients :
        (req[c].pc = "idle" /\ req'[c].op = "login") =>
            LET ct == getCurrentUser([Idle EXCEPT !.cookie = req'[c].cookie],
                                     users, tokens, now)
            IN  ct[1] # None =>
                  /\ req'[c].pc = "done"
                  /\ req'[c].result.status = "ok"
                  /\ req'[c].result.message = [text |-> "Login succeeded.",
                                               arg |-> <<>>]
                  /\ req'[c].result.user # None
                  /\ req'[c].result.user._id = ct[1]._id
                  /\ req'[c].result.authToken =
                        [token |-> ct[2]._id, expires |-> ct[2].expires,
                         userId |-> ct[1]._id]
                  /\ ct[2] \in tokens
                  /\ tokens' = tokens /\ nextTok' = nextTok
                  /\ ~req'[c].respCookie.set
                  /\ req'[c].newTokens = {}

\* C18: a login that already resolves to an identity through a valid session
\* cookie returns success for that identity and its existing token without
\* reading the Authorization header, creates no token and sets no cookie.
C18_CookieLoginIgnoresHeader == [][C18_CookieLoginStep]_vars

C18_Witness ==
    \E c \in AllClients :
        /\ Finished(c, "login") /\ req[c].branch = "cookie"
        /\ req[c].auth = B64Header("Basic ", <<"a", ":", "q">>)
        /\ req[c].cur # None /\ req[c].cur._id = 2
        /\ req[c].result.status = "ok"

(* ------------------------------- C19 ------------------------------------ *)
\* a failed login has made no token, set no cookie and attached no identity;
\* a login that has done any of these found its identity and verified the
\* password first
C19_NoTraceOfFailure ==
    \A c \in AllClients :
        req[c].op = "login" =>
            /\ (req[c].pc = "done" /\ req[c].result.status = "error") =>
                  /\ req[c].newTokens = {}
                  /\ ~req[c].respCookie.set
                  /\ req[c].girderUser = None
            /\ (req[c].newTokens # {} \/ req[c].respCookie.set
                \/ req[c].girderUser # None) =>
                  /\ req[c].doc # None
                  /\ ParseAuth(req[c].auth)[1] = "ok"
                  /\ req[c].doc.salt = <<"hash", ParseAuth(req[c].auth)[3]>>
                  /\ ParseAuth(req[c].auth)[2] \in {req[c].doc.login, req[c].doc.email}

\* the step that ends a login in an error changes no store
C19_FailureStep ==
    \A c \in AllClients :
        (req[c].pc # "done" /\ req'[c].op = "login" /\ req'[c].pc = "done"
         /\ req'[c].result.status = "error") =>
            /\ users' = users /\ tokens' = tokens
            /\ nextId' = nextId /\ nextTok' = nextTok
            /\ jar' = jar

\* C19: every login that ends in an error leaves the state unchanged: no
\* token, no authToken cookie, no identity attached to the request; token
\* and cookie come only after the lookup and the password check succeeded.
C19_FailedLoginChangesNothing ==
    /\ []C19_NoTraceOfFailure
    /\ [][C19_FailureStep]_vars

C19_Witness ==
    \E c \in AllClients :
        /\ Finished(c, "login") /\ req[c].branch = "nouser"
        /\ req[c].result.status = "error"
        /\ tokens # {}

(* ------------------------------- C20 ------------------------------------ *)
\* C20: under interleaved login, createUser and deleteUser requests a token
\* is created only for an identity that is in the identity store at that
\* moment, and none is issued for an identity whose deletion has completed.
C20_TokenOnlyForStoredIdentity ==
    [][\A t \in tokens' \ tokens :
          /\ \E u \in users : u._id = t.userId
          /\ t.userId \notin deleted]_vars

(* ------------------------------- C16 ------------------------------------ *)
\* C16: a value asDict returned is a snapshot: whatever mutators are called
\* on the Description afterwards, the exported value reads as it did when it
\* was exported.
C16_ExportIsSnapshot ==
    desc.exported => Deref(desc, desc.export) = desc.snapshot

(* ------------------------------- C17 ------------------------------------ *)
CallsOf(kind) == SelectSeq(desc.calls, LAMBDA call : call.kind = kind)

LastOf(kind) ==
    IF CallsOf(kind) = <<>> THEN [present |-> FALSE, value |-> ""]
    ELSE [present |-> TRUE, value |-> CallsOf(kind)[Len(CallsOf(kind))].text]

\* the export the calls made so far should give
ExpectedExport ==
    [summary |-> desc.given,
     notes |-> LastOf("notes"),
     responseClass |-> LastOf("responseClass"),
     parameters |->
        [i \in 1..Len(CallsOf("param")) |->
            [name |-> CallsOf("param")[i].name,
             description |-> CallsOf("param")[i].description,
             paramType |-> CallsOf("param")[i].paramType,
             dataType |-> CallsOf("param")[i].dataType,
             allowMultiple |-> FALSE,
             required |-> CallsOf("param")[i].required]],
     errorResponses |->
        [i \in 1..Len(CallsOf("errorResponse")) |->
            [message |-> CallsOf("errorResponse")[i].text,
             code |-> CallsOf("errorResponse")[i].code]]]

\* C17: after any sequence of mutator calls every call returned the same
\* builder and the export is: the summary as constructed, the params and the
\* errorResponses in call order with duplicates kept, notes and
\* responseClass of their last call or absent.
C17_ExportFollowsCalls ==
    desc.summary # "" =>
        /\ Deref(desc, asDict(desc)) = ExpectedExport
        /\ desc.calls # <<>> => desc.ret = "self"

C17_Witness ==
    /\ Len(CallsOf("param")) >= 2
    /\ CallsOf("param")[1].name = CallsOf("param")[2].name
    /\ CallsOf("param")[1] # CallsOf("param")[2]
    /\ Len(desc.calls) = 3
    /\ desc.ret = "self"

(* ------------------------------- C13 ------------------------------------ *)
\* the resources the registrations made visible in the documentation
VisibleResources ==
    {docs.log[i].resource : i \in {k \in 1..Len(docs.log) : docs.log[k].docVisible}}

\* C13: listResources returns exactly the resources that have at least one
\* documentation-visible route, each once, in lexicographic order.
C13_ListIsSortedVisible ==
    docs.reply.kind = "listResources" =>
        LET apis == docs.reply.apis IN
        /\ docs.reply.status = "ok"
        /\ \A i \in 1..Len(apis) :
              /\ Head(apis[i].path) = "/"
              /\ Tail(apis[i].path) \in VisibleResources
        /\ \A r \in VisibleResources :
              \E i \in 1..Len(apis) : Tail(apis[i].path) = r
        /\ \A i \in 1..Len(apis) : \A j \in 1..Len(apis) :
              i < j => LexLess(Tail(apis[i].path), Tail(apis[j].path))

C13_Witness ==
    /\ docs.reply.kind = "listResources"
    /\ Len(docs.reply.apis) = 2
    /\ Len(docs.log) = 3
    /\ docs.reply.apis[1].path = <<"/", "a", "b">>
    /\ docs.log[1].resource = <<"b">>
    /\ \E i \in 1..3 : ~docs.log[i].docVisible

(* ------------------------------- C14 ------------------------------------ *)
EverRegistered == {docs.log[i].resource : i \in 1..Len(docs.log)}

\* C14: describeResource fails with 'Invalid resource: <name>' (400) exactly
\* when the name was never registered; for every registered name, and so for
\* every name listResources returns, it succeeds with the operations.
C14_UnknownExactlyWhenUnregistered ==
    docs.reply.kind = "describeResource" =>
        LET name == docs.reply.asked IN
        /\ name \notin EverRegistered =>
              /\ docs.reply.status = "error"
              /\ docs.reply.message = [text |-> "Invalid resource: {}", arg |-> name]
              /\ docs.reply.code \in 400..499
        /\ name \in EverRegistered =>
              /\ docs.reply.status = "ok"
              /\ docs.reply.apis # <<>>
        /\ name \in VisibleResources => docs.reply.status = "ok"

C14_Witness ==
    /\ docs.reply.kind = "describeResource"
    /\ docs.reply.status = "ok"
    /\ docs.reply.asked \in EverRegistered \ VisibleResources

(* ------------------------------- C15 ------------------------------------ *)
\* the registrations of one resource, in the order they were made
RegsOf(name) == SelectSeq(docs.log, LAMBDA g : g.resource = name)

\* where in regs a path was first registered
FirstAt(regs, path) ==
    CHOOSE i \in 1..Len(regs) :
        regs[i].path = path /\ \A j \in 1..(i - 1) : regs[j].path # path

MethodsUnder(regs, path) ==
    LET under == SelectSeq(regs, LAMBDA g : g.path = path)
    IN  [i \in 1..Len(under) |-> under[i].method]

\* C15: describeResource returns one entry per distinct path pattern, each
\* with all operations registered under that path, the entries in the order
\* in which the paths were first registered.
C15_GroupedInRegistrationOrder ==
    (docs.reply.kind = "describeResource" /\ docs.reply.status = "ok") =>
        LET apis == docs.reply.apis
            regs == RegsOf(docs.reply.asked)
        IN  /\ {apis[i].path : i \in 1..Len(apis)}
                  = {regs[i].path : i \in 1..Len(regs)}
            /\ \A i \in 1..Len(apis) : \A j \in 1..Len(apis) :
                  i < j => FirstAt(regs, apis[i].path) < FirstAt(regs, apis[j].path)
            /\ \A i \in 1..Len(apis) :
                  [o \in 1..Len(apis[i].operations) |->
                        apis[i].operations[o].httpMethod]
                      = MethodsUnder(regs, apis[i].path)

C15_Witness ==
    /\ docs.reply.kind = "describeResource" /\ docs.reply.status = "ok"
    /\ Len(docs.reply.apis) = 2
    /\ Len(docs.reply.apis[1].operations) = 2
    /\ docs.log[2].path = "/{id}"

====
